---- MODULE Spec2Model ----
(***************************************************************************)
(* A model of the drive-linkup ride-sharing client: the live-map location  *)
(* queries (latest row per actor), location sharing from the dashboards    *)
(* and the map, the booking directory, and the presenter's subscriptions.  *)
(* Each subsystem has its own specification over its own variables; the    *)
(* other variables stay at their initial values.                           *)
(***************************************************************************)
EXTENDS Integers, Sequences, FiniteSets, TLC

(***************************************************************************)
(* Bounds of the model.                                                    *)
(***************************************************************************)
\* rows in a location table handed to the latest-per-actor query
MaxRows == 3
\* greatest timestamp (in ticks) a location row carries
MaxTs == 2
\* ticks of the store's timestamp per millisecond of a JavaScript Date
\* (the store keeps microseconds: 1000 per millisecond; scaled down here)
TicksPerMs == 2

\* device positions delivered to watch callbacks in one run
MaxSamples == 2
\* device-position watches started in one run
MaxWatches == 2
\* page mounts in one run
MaxMounts == 2

\* booking rows in one run
MaxBookings == 2
\* realtime channels opened in one run
MaxChannels == 4
\* rows added to a location table while the presenter is observed
MaxChanges == 2
\* location fetches of the presenter in flight at once
MaxInFlight == 2
MaxNow == 2
MaxTrips == 2
MaxTimers == 2

Users == {"u1", "u2", "u3"}
LocActors == {"u1", "u2"}

Range(s) == {s[i] : i \in DOMAIN s}

VARIABLES
    \* ---- location tables and the presenter's views -------------------
    component,            \* the map component that is mounted
    tableName,            \* the location table the rows below belong to
    table,                \* rows of that location table, in insertion order
    driverLocations,      \* EnhancedMapComponent state (first-seen dedup)
    passengerLocations,   \* EnhancedMapComponent state (replace-on-greater dedup)
    mapDriverLocations,   \* MapComponent state (replace-on-greater dedup)
    \* ---- location sharing: one browser window and the store ----------
    build,                \* which DriverDashboard/map sources the build holds
    isSecureContext,      \* window.isSecureContext
    hasGeolocation,       \* navigator.geolocation is present
    user,                 \* useAuth().user: the signed-in user's id, or NoUser
    role,                 \* profiles.role of the signed-in user
    page,                 \* the route that is mounted
    inst,                 \* number of page mounts so far (the current instance)
    isSharing,            \* the mounted dashboard's isSharing state
    locationWatchId,      \* window.locationWatchId, 0 when absent
    watches,              \* the browser's active position watches
    nextWatchId,          \* the id the next watchPosition call returns
    selectedTrip,         \* Map page: the selected trip, or NoTrip
    userPosition,         \* map component: own position, or NoPosition
    inflight,             \* location writes sent and not yet answered
    samples,              \* device positions delivered so far (also the clock)
    driver_locations,     \* the store's driver_locations rows
    passenger_locations,  \* the store's passenger_locations rows
    toast,                \* the last toast shown
    \* ---- trips and bookings: the store and every user's pages --------
    trips,                \* the store's trips, by id
    bookings,             \* the store's bookings rows, in insertion order
    driverBookings,       \* per user: the ids of DriverDashboard's bookings state
                          \* that carry the Accept and Reject buttons
    passengerBookings,    \* per user: the ids of PassengerDashboard's bookings
                          \* state that carry the Cancel Request button
    dispatches,           \* send-booking-notification calls not yet answered
    lastOp,               \* the last handler call: who, what, and its toast
                          \* (or the console.warn of a failed notification)
    \* ---- the map presenter's change subscriptions --------------------
    presenter,            \* the mounted map component, or NoPresenter
    showDrivers,          \* its showDrivers prop
    channels,             \* the Supabase client's open realtime channels
    held,                 \* the channels the effect's cleanup closes over
    nextChannel,          \* the next channel the client opens
    notices,              \* postgres_changes events whose callback is pending
    fetching,             \* location fetches of the mounted presenter in
                          \* flight: the table and the rows the store returns
    lastFetch,            \* the last fetch that returned to the mounted
                          \* presenter: its table, whether it brought data,
                          \* and the most rows an answer has brought so far
    \* ---- the CreateTrip page ------------------------------------------
    now,                  \* new Date(): the clock
    profile,              \* useAuth().profile: the signed-in user, or NoUser
    loading,              \* the page's loading flag
    tripsTable,           \* the trips table of the store
    creating,             \* the trips insert not yet answered, or NoInsert
    lastCreate,           \* the last handleSubmit call: who, the departure
                          \* entered, and the toast it has shown
    \* ---- the map presenter's viewport -------------------------------
    mapRef,               \* mapRef.current: "map" once the widget exists,
                          \* "null" before that and after the unmount
    mapTrip,              \* the selectedTrip prop of the map component
    mapPosition,          \* its userPosition state, or NoPosition
    viewport,             \* what the widget shows
    timers,               \* setTimeout callbacks not yet run: their bounds
    lastView,             \* the last run of the viewport code and its result
    \* ---- the TripDetails page of trip t1 ------------------------------
    pageOpen,             \* the page is mounted
    pageUser,             \* useAuth().user on that page, or NoUser
    pageLoading,          \* its loading state: fetchTripDetails is running
    existingBooking,      \* its existingBooking state: "null", "found", "temp"
    showBookingForm,      \* its showBookingForm state
    lookup                \* fetchExisting: "idle", "sent", or the answer of
                          \* the store that is still to arrive

dedupVars == <<component, tableName, table, driverLocations, passengerLocations, mapDriverLocations>>

shareVars == <<build, isSecureContext, hasGeolocation, user, role, page, inst,
               isSharing, locationWatchId, watches, nextWatchId, selectedTrip,
               userPosition, inflight, samples, driver_locations,
               passenger_locations, toast>>

bookVars == <<trips, bookings, driverBookings, passengerBookings, dispatches,
              lastOp>>

presVars == <<presenter, showDrivers, channels, held, nextChannel, notices, fetching,
              lastFetch>>

createVars == <<now, profile, loading, tripsTable, creating, lastCreate>>

viewVars == <<mapRef, mapTrip, mapPosition, viewport, timers, lastView>>

pageVars == <<pageOpen, pageUser, pageLoading, existingBooking, showBookingForm, lookup>>

vars == <<dedupVars, shareVars, bookVars, presVars, createVars, viewVars, pageVars>>

(***************************************************************************)
(* Latest-per-actor query.                                                 *)
(***************************************************************************)
LocRow == [id : 1..MaxRows, actor : LocActors, ts : 0..MaxTs]

\* every table of at most MaxRows rows; row i has id i
Tables ==
    UNION {{[i \in 1..n |-> [id |-> i, actor |-> f[i].actor, ts |-> f[i].ts]] :
                f \in [1..n -> [actor : LocActors, ts : 0..MaxTs]]} : n \in 0..MaxRows}

\* new Date(updated_at): a Date holds whole milliseconds
DateMs(ts) == ts \div TicksPerMs

\* the arrangements of n rows
Perms ==
    [n \in 0..MaxRows |->
        {p \in [1..n -> 1..n] : \A i, j \in 1..n : i # j => p[i] # p[j]}]

\* .order('updated_at', { ascending: false }): any arrangement of the rows with
\* non-increasing timestamps (the order of equal timestamps is the store's choice)
OrderDesc(t) ==
    LET n == Len(t)
    IN  {[i \in 1..n |-> t[p[i]]] : p \in
            {q \in Perms[n] : \A i \in 1..(n - 1) : t[q[i]].ts >= t[q[i + 1]].ts}}

\* acc.find(l => l.driver_id === location.driver_id): index of the first match, 0 if none
FindIndex(acc, actor) ==
    IF \E i \in DOMAIN acc : acc[i].actor = actor
    THEN CHOOSE i \in DOMAIN acc :
            /\ acc[i].actor = actor
            /\ \A j \in DOMAIN acc : acc[j].actor = actor => i <= j
    ELSE 0

FirstSeenStepKeepLast(acc, location) ==
    LET i == FindIndex(acc, location.actor)
    IN  IF i = 0 THEN Append(acc, location) ELSE [acc EXCEPT ![i] = location]

\* the reducer of EnhancedMapComponent.fetchDriverLocations
FirstSeenStep(acc, location) ==
    IF FindIndex(acc, location.actor) = 0 THEN Append(acc, location) ELSE acc

ReplaceGreaterStepSmaller(acc, current) ==
    LET i == FindIndex(acc, current.actor)
    IN  IF i = 0 THEN Append(acc, current)
        ELSE IF DateMs(current.ts) <= DateMs(acc[i].ts)
             THEN [acc EXCEPT ![i] = current]
             ELSE acc

\* the reducer of fetchPassengerLocations and of MapComponent.fetchDriverLocations
ReplaceGreaterStep(acc, current) ==
    LET i == FindIndex(acc, current.actor)
    IN  IF i = 0 THEN Append(acc, current)
        ELSE IF DateMs(current.ts) > DateMs(acc[i].ts)
             THEN [acc EXCEPT ![i] = current]
             ELSE acc

RECURSIVE ReduceFirstSeen(_, _)
ReduceFirstSeen(acc, rest) ==
    IF rest = <<>> THEN acc
    ELSE ReduceFirstSeen(FirstSeenStep(acc, Head(rest)), Tail(rest))

RECURSIVE ReduceReplaceGreater(_, _)
ReduceReplaceGreater(acc, rest) ==
    IF rest = <<>> THEN acc
    ELSE ReduceReplaceGreater(ReplaceGreaterStep(acc, Head(rest)), Tail(rest))

DedupHeadOnly(rows) == IF rows = <<>> THEN <<>> ELSE <<Head(rows)>>

DedupFirstSeen(rows) == ReduceFirstSeen(<<>>, rows)
DedupReplaceGreater(rows) == ReduceReplaceGreater(<<>>, rows)

\* EnhancedMapComponent.fetchDriverLocations: select, dedup, setDriverLocations
FetchDriverLocations ==
    /\ component = "EnhancedMapComponent"
    /\ tableName = "driver_locations"
    /\ driverLocations' \in {DedupFirstSeen(d) : d \in OrderDesc(table)}
    /\ UNCHANGED <<component, tableName, table, passengerLocations, mapDriverLocations>>
    /\ UNCHANGED <<shareVars, bookVars, presVars, createVars, viewVars, pageVars>>

\* EnhancedMapComponent.fetchPassengerLocations
FetchPassengerLocations ==
    /\ component = "EnhancedMapComponent"
    /\ tableName = "passenger_locations"
    /\ passengerLocations' \in {DedupReplaceGreater(d) : d \in OrderDesc(table)}
    /\ UNCHANGED <<component, tableName, table, driverLocations, mapDriverLocations>>
    /\ UNCHANGED <<shareVars, bookVars, presVars, createVars, viewVars, pageVars>>

\* MapComponent.fetchDriverLocations
MapFetchDriverLocations ==
    /\ component = "MapComponent"
    /\ tableName = "driver_locations"
    /\ mapDriverLocations' \in {DedupReplaceGreater(d) : d \in OrderDesc(table)}
    /\ UNCHANGED <<component, tableName, table, driverLocations, passengerLocations>>
    /\ UNCHANGED <<shareVars, bookVars, presVars, createVars, viewVars, pageVars>>

(***************************************************************************)
(* Location sharing: the dashboards' startLocationSharing /                *)
(* stopLocationSharing, the map component's position watch, the browser's  *)
(* geolocation watches and the two location tables.                        *)
(***************************************************************************)
NoUser == "none"
NoTrip == "none"
NoPosition == 0
Lats == {10, 20}
ShareTrips == {"t1"}
Pages == {"Landing", "DriverDashboard", "PassengerDashboard", "Map"}
Dashboards == {"DriverDashboard", "PassengerDashboard"}
MapKinds == {"mapInsert", "mapView"}

\* <ProtectedRoute requiredRole=...> around the two dashboards
RouteAllowed(p) ==
    CASE p = "DriverDashboard" -> user # NoUser /\ role = "driver"
      [] p = "PassengerDashboard" -> user # NoUser /\ role = "passenger"
      [] OTHER -> TRUE

\* the callback a dashboard's startLocationSharing hands to watchPosition:
\* insert (the newer DriverDashboard, PassengerDashboard) or upsert (the older
\* DriverDashboard)
ShareKind(p) ==
    IF p = "PassengerDashboard" THEN "passengerInsert"
    ELSE IF build = "insert" THEN "driverInsert" ELSE "driverUpsert"

\* the older DriverDashboard.startLocationSharing only tests navigator.geolocation
ChecksContext(p) == ~(p = "DriverDashboard" /\ build = "upsert")

\* the map component's watch callback: the newer one also writes the position
MapKind == IF build = "insert" THEN "mapInsert" ELSE "mapView"

NewWatch(kind, i, trip) == [id |-> nextWatchId, owner |-> kind, inst |-> i, trip |-> trip]

StartLocationSharing ==
    /\ page \in Dashboards
    /\ ~isSharing
    /\ IF ~hasGeolocation
       THEN /\ toast' = "Geolocation is not supported by this browser"
            /\ UNCHANGED <<isSharing, watches, nextWatchId, locationWatchId>>
       ELSE IF ChecksContext(page) /\ ~isSecureContext
       THEN /\ toast' = "Location sharing requires HTTPS. Please use a secure connection."
            /\ UNCHANGED <<isSharing, watches, nextWatchId, locationWatchId>>
       ELSE IF ChecksContext(page) /\ user = NoUser
       THEN /\ toast' = "Please sign in to share location"
            /\ UNCHANGED <<isSharing, watches, nextWatchId, locationWatchId>>
       ELSE /\ nextWatchId <= MaxWatches
            /\ isSharing' = TRUE
            /\ watches' = watches \cup {NewWatch(ShareKind(page), inst, NoTrip)}
            /\ nextWatchId' = nextWatchId + 1
            /\ locationWatchId' = nextWatchId
            /\ toast' = "Location sharing started"
    /\ UNCHANGED <<build, isSecureContext, hasGeolocation, user, role, page, inst,
                   selectedTrip, userPosition, inflight, samples, driver_locations,
                   passenger_locations>>
    /\ UNCHANGED <<dedupVars, bookVars, presVars, createVars, viewVars, pageVars>>

StopLocationSharing ==
    /\ page \in Dashboards
    /\ isSharing
    /\ IF locationWatchId # 0
       THEN /\ watches' = {w \in watches : w.id # locationWatchId}
            /\ locationWatchId' = 0
       ELSE UNCHANGED <<watches, locationWatchId>>
    /\ isSharing' = FALSE
    /\ toast' = "Location sharing stopped"
    /\ UNCHANGED <<build, isSecureContext, hasGeolocation, user, role, page, inst,
                   nextWatchId, selectedTrip, userPosition, inflight, samples,
                   driver_locations, passenger_locations>>
    /\ UNCHANGED <<dedupVars, bookVars, presVars, createVars, viewVars, pageVars>>

NewRequest(kind, i, lat, trip) ==
    [rid |-> samples + 1, kind |-> kind, inst |-> i, lat |-> lat, trip |-> trip,
     stamp |-> samples + 1]

\* the device delivers a position to a watch's success callback
WatchSuccess(w, lat) ==
    /\ w \in watches
    /\ samples < MaxSamples
    /\ samples' = samples + 1
    /\ IF w.owner \in MapKinds
       THEN /\ userPosition' = lat
            /\ inflight' =
                IF w.owner = "mapInsert" /\ w.trip # NoTrip /\ user # NoUser
                THEN inflight \cup {NewRequest("mapInsert", w.inst, lat, w.trip)}
                ELSE inflight
       ELSE /\ inflight' = inflight \cup {NewRequest(w.owner, w.inst, lat, NoTrip)}
            /\ UNCHANGED userPosition
    /\ UNCHANGED <<build, isSecureContext, hasGeolocation, user, role, page, inst,
                   isSharing, locationWatchId, watches, nextWatchId, selectedTrip,
                   driver_locations, passenger_locations, toast>>
    /\ UNCHANGED <<dedupVars, bookVars, presVars, createVars, viewVars, pageVars>>

\* setIsSharing(false) from a callback of page instance i: it reaches the
\* mounted dashboard only when that instance is still the mounted one
SetSharingOff(i) == IF i = inst THEN FALSE ELSE isSharing

\* the device reports an error (timeout, position unavailable, denied) to a
\* dashboard watch's error callback; the map's error callback only logs
WatchError(w) ==
    /\ w \in watches
    /\ w.owner \notin MapKinds
    /\ toast' = "Failed to get location"
    /\ isSharing' = SetSharingOff(w.inst)
    /\ UNCHANGED <<build, isSecureContext, hasGeolocation, user, role, page, inst,
                   locationWatchId, watches, nextWatchId, selectedTrip, userPosition,
                   inflight, samples, driver_locations, passenger_locations>>
    /\ UNCHANGED <<dedupVars, bookVars, presVars, createVars, viewVars, pageVars>>

LocationRow(actor, trip, lat, ts) == [actor |-> actor, trip |-> trip, lat |-> lat, ts |-> ts]

\* .insert({...}): one new row
InsertRow(rows, row) == Append(rows, row)

\* .upsert({...}, { onConflict: 'driver_id' }): the row of that driver is
\* rewritten in place (updated_at is not in the payload and stays), and a row
\* is added only when the driver has none
UpsertRow(rows, row) ==
    IF \E i \in DOMAIN rows : rows[i].actor = row.actor
    THEN [i \in DOMAIN rows |->
            IF rows[i].actor = row.actor
            THEN [rows[i] EXCEPT !.lat = row.lat]
            ELSE rows[i]]
    ELSE Append(rows, row)

\* the store answers a write, and the awaiting callback resumes
InsertComplete(r, ok) ==
    /\ r \in inflight
    /\ inflight' = inflight \ {r}
    /\ CASE r.kind = "driverInsert" ->
              IF ok
              THEN /\ driver_locations' =
                        InsertRow(driver_locations, LocationRow(user, NoTrip, r.lat, samples))
                   /\ UNCHANGED <<passenger_locations, toast, isSharing>>
              ELSE /\ toast' = "Failed to update location"
                   /\ isSharing' = SetSharingOff(r.inst)
                   /\ UNCHANGED <<driver_locations, passenger_locations>>
         [] r.kind = "passengerInsert" ->
              IF ok
              THEN /\ passenger_locations' =
                        InsertRow(passenger_locations, LocationRow(user, NoTrip, r.lat, samples))
                   /\ UNCHANGED <<driver_locations, toast, isSharing>>
              ELSE /\ toast' = "Failed to update location"
                   /\ isSharing' = SetSharingOff(r.inst)
                   /\ UNCHANGED <<driver_locations, passenger_locations>>
         [] r.kind = "driverUpsert" ->
              /\ driver_locations' =
                    IF ok
                    THEN UpsertRow(driver_locations, LocationRow(user, NoTrip, r.lat, samples))
                    ELSE driver_locations
              /\ UNCHANGED <<passenger_locations, toast, isSharing>>
         [] r.kind = "mapInsert" ->
              /\ IF ~ok
                 THEN UNCHANGED <<driver_locations, passenger_locations>>
                 ELSE IF role = "driver"
                 THEN /\ driver_locations' =
                            InsertRow(driver_locations, LocationRow(user, r.trip, r.lat, r.stamp))
                      /\ UNCHANGED passenger_locations
                 ELSE /\ passenger_locations' =
                            InsertRow(passenger_locations, LocationRow(user, r.trip, r.lat, r.stamp))
                      /\ UNCHANGED driver_locations
              /\ UNCHANGED <<toast, isSharing>>
    /\ UNCHANGED <<build, isSecureContext, hasGeolocation, user, role, page, inst,
                   locationWatchId, watches, nextWatchId, selectedTrip, userPosition,
                   samples>>
    /\ UNCHANGED <<dedupVars, bookVars, presVars, createVars, viewVars, pageVars>>

\* route change: the old page unmounts (the map's effect cleanup clears its
\* watch; a dashboard has no cleanup), the new page mounts
Navigate(p) ==
    /\ p \in Pages \ {page}
    /\ RouteAllowed(p)
    /\ inst < MaxMounts
    /\ inst' = inst + 1
    /\ page' = p
    /\ isSharing' = FALSE
    /\ selectedTrip' = NoTrip
    /\ userPosition' = NoPosition
    /\ LET kept == IF page = "Map" THEN {w \in watches : w.owner \notin MapKinds}
                   ELSE watches
       IN  IF p = "Map" /\ hasGeolocation
           THEN /\ nextWatchId <= MaxWatches
                /\ watches' = kept \cup {NewWatch(MapKind, inst + 1, NoTrip)}
                /\ nextWatchId' = nextWatchId + 1
           ELSE /\ watches' = kept
                /\ UNCHANGED nextWatchId
    /\ UNCHANGED <<build, isSecureContext, hasGeolocation, user, role,
                   locationWatchId, inflight, samples, driver_locations,
                   passenger_locations, toast>>
    /\ UNCHANGED <<dedupVars, bookVars, presVars, createVars, viewVars, pageVars>>

\* Map page: setSelectedTrip(trip); the newer map component's watch effect
\* depends on selectedTrip and runs again (clearWatch, then watchPosition)
SelectTrip(t) ==
    /\ page = "Map"
    /\ t \in ShareTrips \ {selectedTrip}
    /\ selectedTrip' = t
    /\ IF build = "insert" /\ hasGeolocation
       THEN /\ nextWatchId <= MaxWatches
            /\ watches' = {w \in watches : w.owner \notin MapKinds}
                            \cup {NewWatch("mapInsert", inst, t)}
            /\ nextWatchId' = nextWatchId + 1
       ELSE UNCHANGED <<watches, nextWatchId>>
    /\ UNCHANGED <<build, isSecureContext, hasGeolocation, user, role, page, inst,
                   isSharing, locationWatchId, userPosition, inflight, samples,
                   driver_locations, passenger_locations, toast>>
    /\ UNCHANGED <<dedupVars, bookVars, presVars, createVars, viewVars, pageVars>>

NextShare ==
    \/ StartLocationSharing
    \/ StopLocationSharing
    \/ \E w \in watches, lat \in Lats : WatchSuccess(w, lat)
    \/ \E w \in watches : WatchError(w)
    \/ \E r \in inflight, ok \in BOOLEAN : InsertComplete(r, ok)
    \/ \E p \in Pages : Navigate(p)
    \/ \E t \in ShareTrips : SelectTrip(t)

(***************************************************************************)
(* Trips and bookings: TripDetails.handleBookingSubmit, the dashboards'    *)
(* fetchBookings, updateBookingStatus and cancelBooking, the row-level     *)
(* policies of the bookings table and the notification call.               *)
(***************************************************************************)
TripIds == {"t1"}

\* trips.available_seats of the trip
SeatCounts == {1, 2}

\* the values of the form's seats field: the most seats trip tr can give, and
\* one more
FormSeats(tr) == {tr.available_seats, tr.available_seats + 1}

\* profiles.role
Role == [u \in Users |-> IF u = "u2" THEN "passenger" ELSE "driver"]

Trip(driver, seats) == [driver |-> driver, available_seats |-> seats, status |-> "scheduled"]

NoOp == [op |-> "none", user |-> NoUser, trip |-> NoTrip, toast |-> ""]

Op(op, u, t, msg) == [op |-> op, user |-> u, trip |-> t, toast |-> msg]

OwnTripUnchecked(u, trip) == FALSE

\* if (trip.driver_id === user.id)
OwnTrip(u, trip) == trip.driver = u

SeatsCheckOffByOne(seats, trip) == seats > trip.available_seats + 1

\* if (bookingForm.seats > trip.available_seats)
TooManySeats(seats, trip) == seats > trip.available_seats

NewBookingAccepted(u, t, seats) ==
    [trip |-> t, passenger |-> u, seats |-> seats, status |-> "accepted"]

\* the row handleBookingSubmit inserts
NewBooking(u, t, seats) ==
    [trip |-> t, passenger |-> u, seats |-> seats, status |-> "pending"]

\* TripDetails.handleBookingSubmit by user u (or nobody signed in) on the
\* page of trip t, with bookingForm.seats = seats; ok: the store takes the insert
SubmitBooking(u, t, seats, ok) ==
    /\ t \in DOMAIN trips
    /\ IF u = NoUser
       THEN /\ lastOp' = Op("handleBookingSubmit", u, t,
                            "You must be logged in to book a trip")
            /\ UNCHANGED bookings
       ELSE IF OwnTrip(u, trips[t])
       THEN /\ lastOp' = Op("handleBookingSubmit", u, t,
                            "You can't book your own trip")
            /\ UNCHANGED bookings
       ELSE IF TooManySeats(seats, trips[t])
       THEN /\ lastOp' = Op("handleBookingSubmit", u, t,
                            "Not enough seats available")
            /\ UNCHANGED bookings
       ELSE IF ok
       THEN /\ Len(bookings) < MaxBookings
            /\ bookings' = Append(bookings, NewBooking(u, t, seats))
            /\ lastOp' = Op("handleBookingSubmit", u, t,
                            "Booking request sent successfully!")
       ELSE /\ lastOp' = Op("handleBookingSubmit", u, t,
                            "Failed to send booking request")
            /\ UNCHANGED bookings
    /\ UNCHANGED <<trips, driverBookings, passengerBookings, dispatches>>

\* the handler as the store sees it, from any page showing trip t
HandleBookingSubmit(u, t, seats, ok) ==
    /\ SubmitBooking(u, t, seats, ok)
    /\ UNCHANGED <<dedupVars, shareVars, presVars, createVars, viewVars, pageVars>>

\* "Users can view bookings for their trips or requests" (FOR SELECT)
RlsSelect(u, b) == u = b.passenger \/ u = trips[b.trip].driver

\* "Passengers can update their own bookings", "Drivers can update bookings
\* for their trips" (FOR UPDATE): a row the policies hide is not updated
RlsUpdate(u, rows, i, status) ==
    IF u = rows[i].passenger \/ u = trips[rows[i].trip].driver
    THEN [rows EXCEPT ![i].status = status]
    ELSE rows

DriverListUnfiltered(u, rows) == {j \in DOMAIN rows : RlsSelect(u, rows[j])}

\* DriverDashboard.fetchBookings: trips!inner(...).eq('trips.driver_id', profile.user_id)
DriverList(u, rows) ==
    {j \in DOMAIN rows : RlsSelect(u, rows[j]) /\ trips[rows[j].trip].driver = u}

\* PassengerDashboard.fetchBookings: .eq('passenger_id', profile.user_id)
PassengerList(u, rows) ==
    {j \in DOMAIN rows : RlsSelect(u, rows[j]) /\ rows[j].passenger = u}

\* {booking.status === 'pending' && (...buttons...)}: the rows of a fetched
\* list that are rendered with their action buttons
WithButtons(ids, rows) == {i \in ids : rows[i].status = "pending"}

\* DriverDashboard mounts (or reloads) for driver u
FetchBookingsDriver(u) ==
    /\ Role[u] = "driver"
    /\ driverBookings' = [driverBookings EXCEPT ![u] = WithButtons(DriverList(u, bookings), bookings)]
    /\ UNCHANGED <<trips, bookings, passengerBookings, dispatches, lastOp>>
    /\ UNCHANGED <<dedupVars, shareVars, presVars, createVars, viewVars, pageVars>>

\* PassengerDashboard mounts (or reloads) for passenger u
FetchBookingsPassenger(u) ==
    /\ Role[u] = "passenger"
    /\ passengerBookings' = [passengerBookings EXCEPT ![u] = WithButtons(PassengerList(u, bookings), bookings)]
    /\ UNCHANGED <<trips, bookings, driverBookings, dispatches, lastOp>>
    /\ UNCHANGED <<dedupVars, shareVars, presVars, createVars, viewVars, pageVars>>

NotificationType(status) ==
    IF status = "accepted" THEN "booking_accepted" ELSE "booking_rejected"

\* DriverDashboard.updateBookingStatus(booking.id, status) from the Accept or
\* Reject button of a booking the list shows as pending; ok: the update
\* request returns no error
UpdateBookingStatus(u, i, status, ok) ==
    /\ Role[u] = "driver"
    /\ i \in driverBookings[u]
    /\ IF ok
       THEN /\ bookings' = RlsUpdate(u, bookings, i, status)
            /\ lastOp' = Op(status, u, NoTrip,
                            IF status = "accepted" THEN "Booking accepted!"
                            ELSE "Booking rejected!")
            /\ dispatches' = dispatches \cup
                    {[booking |-> i, type |-> NotificationType(status)]}
            /\ driverBookings' = [driverBookings EXCEPT
                    ![u] = WithButtons(DriverList(u, bookings'), bookings')]
       ELSE /\ lastOp' = Op(status, u, NoTrip, "Failed to update booking")
            /\ UNCHANGED <<bookings, dispatches, driverBookings>>
    /\ UNCHANGED <<trips, passengerBookings>>
    /\ UNCHANGED <<dedupVars, shareVars, presVars, createVars, viewVars, pageVars>>

\* PassengerDashboard.cancelBooking(booking.id) from the Cancel Request button
\* of a booking the list shows as pending
CancelBooking(u, i, ok) ==
    /\ Role[u] = "passenger"
    /\ i \in passengerBookings[u]
    /\ IF ok
       THEN /\ bookings' = RlsUpdate(u, bookings, i, "cancelled")
            /\ lastOp' = Op("cancelled", u, NoTrip, "Booking cancelled")
            /\ passengerBookings' =
                    [passengerBookings EXCEPT
                        ![u] = WithButtons(PassengerList(u, bookings'), bookings')]
       ELSE /\ lastOp' = Op("cancelled", u, NoTrip,
                            "Failed to cancel booking")
            /\ UNCHANGED <<bookings, passengerBookings>>
    /\ UNCHANGED <<trips, driverBookings, dispatches>>
    /\ UNCHANGED <<dedupVars, shareVars, presVars, createVars, viewVars, pageVars>>

DispatchRollsBack(rows, d, ok) ==
    IF ok THEN rows ELSE [rows EXCEPT ![d.booking].status = "pending"]

\* .then(({ error: fnError }) => { if (fnError) console.warn(...) }): the
\* bookings are not touched whatever the notification call returns
AfterDispatch(rows, d, ok) == rows

RetryOnFailure(ds, d, ok) == IF ok THEN ds \ {d} ELSE ds

\* the call is not awaited and nothing calls it again: it is over once it
\* has returned, whatever it returned
Settled(ds, d, ok) == ds \ {d}

\* the send-booking-notification call returns; a failure is written to the
\* console, the toast on the screen stays
DispatchComplete(d, ok) ==
    /\ d \in dispatches
    /\ dispatches' = Settled(dispatches, d, ok)
    /\ lastOp' = IF ok THEN lastOp ELSE [lastOp EXCEPT !.op = "console.warn"]
    /\ bookings' = AfterDispatch(bookings, d, ok)
    /\ UNCHANGED <<trips, driverBookings, passengerBookings>>
    /\ UNCHANGED <<dedupVars, shareVars, presVars, createVars, viewVars, pageVars>>

\* "Drivers can delete their own trips" (FOR DELETE): a row the policy hides
\* is not deleted, and that is no error
RlsDelete(u, ts, t) ==
    IF t \in DOMAIN ts /\ ts[t].driver = u
    THEN [x \in DOMAIN ts \ {t} |-> ts[x]]
    ELSE ts

\* DriverDashboard.deleteTrip(trip.id) from the Delete button of a trip in the
\* driver's list; the bookings table is not part of the request and has no
\* foreign key to trips
DeleteTrip(u, t, ok) ==
    /\ Role[u] = "driver"
    /\ t \in DOMAIN trips
    /\ trips[t].driver = u
    /\ IF ok
       THEN /\ trips' = RlsDelete(u, trips, t)
            /\ lastOp' = Op("deleteTrip", u, t, "Trip deleted successfully")
       ELSE /\ lastOp' = Op("deleteTrip", u, t, "Failed to delete trip")
            /\ UNCHANGED trips
    /\ UNCHANGED <<bookings, driverBookings, passengerBookings, dispatches>>
    /\ UNCHANGED <<dedupVars, shareVars, presVars, createVars, viewVars, pageVars>>

DeleteTripIds == {"t1", "t2"}

\* booking requests and trip deletions
NextDelete ==
    \/ \E u \in Users \cup {NoUser}, t \in DOMAIN trips, ok \in BOOLEAN :
          \E seats \in FormSeats(trips[t]) : HandleBookingSubmit(u, t, seats, ok)
    \/ \E u \in Users, t \in DOMAIN trips, ok \in BOOLEAN : DeleteTrip(u, t, ok)

NextBooking ==
    \/ \E u \in Users \cup {NoUser}, t \in DOMAIN trips, ok \in BOOLEAN :
          \E seats \in FormSeats(trips[t]) : HandleBookingSubmit(u, t, seats, ok)
    \/ \E u \in Users : FetchBookingsDriver(u)
    \/ \E u \in Users : FetchBookingsPassenger(u)
    \/ \E u \in Users, i \in DOMAIN bookings, status \in {"accepted", "rejected"},
          ok \in BOOLEAN : UpdateBookingStatus(u, i, status, ok)
    \/ \E u \in Users, i \in DOMAIN bookings, ok \in BOOLEAN : CancelBooking(u, i, ok)
    \/ \E d \in dispatches, ok \in BOOLEAN : DispatchComplete(d, ok)

(***************************************************************************)
(* The map presenter's realtime subscriptions: the subscription effect of  *)
(* EnhancedMapComponent (two channels) and of MapComponent (one channel),  *)
(* its cleanup, and the callbacks that refetch the locations.              *)
(***************************************************************************)
NoPresenter == "none"

Presenters == {"EnhancedMapComponent", "MapComponent"}

\* the channels the effect opens: topic and the table whose changes it hears
Topics(c) ==
    IF c = "EnhancedMapComponent"
    THEN <<[topic |-> "driver_locations", table |-> "driver_locations"],
           [topic |-> "passenger_locations", table |-> "passenger_locations"]>>
    ELSE <<[topic |-> "driver-locations", table |-> "driver_locations"]>>

\* the fetches the effect starts before it subscribes
InitialFetches(c) ==
    IF c = "EnhancedMapComponent" THEN {"driver_locations", "passenger_locations"}
    ELSE {"driver_locations"}

\* supabase.channel(topic).on('postgres_changes', {table}, callback).subscribe()
Subscribe(c, first) ==
    {[id |-> first + k - 1, topic |-> Topics(c)[k].topic, table |-> Topics(c)[k].table] :
        k \in DOMAIN Topics(c)}

\* supabase.removeChannel(channel): the channel leaves the client's list; a
\* channel that has left already is left alone
RemoveChannel(reg, id) == {ch \in reg : ch.id # id}

CleanupFirstOnly(reg, ids) ==
    IF ids = {} THEN reg
    ELSE RemoveChannel(reg, CHOOSE i \in ids : \A j \in ids : i <= j)

\* return () => { supabase.removeChannel(driverSub); supabase.removeChannel(passengerSub); }
\* what is left once every channel of the closure has been removed
Cleanup(reg, ids) == {ch \in reg : \A i \in ids : ch \in RemoveChannel(reg, i)}

Ids(reg) == {ch.id : ch \in reg}

\* the rows of location table tbl: one table has rows in a run, the other
\* stays empty
RowsOf(tbl) == IF tbl = tableName THEN table ELSE <<>>

\* a fetch of table tbl that the store answers with rows d
Fetch(tbl, d) == [table |-> tbl, rows |-> d]

\* fetchDriverLocations(), fetchPassengerLocations(): the selects the
\* component sends for the tables tbls; d is the store's answer for tableName
StartFetches(tbls, d) ==
    {Fetch(tbl, IF tbl = tableName THEN d ELSE <<>>) : tbl \in tbls}

\* useState([]): the location states of a component that is not mounted, or
\* has just been mounted
NoMarkers ==
    /\ driverLocations' = <<>>
    /\ passengerLocations' = <<>>
    /\ mapDriverLocations' = <<>>

NoFetch == [table |-> "none", ok |-> FALSE, newest |-> 0]

\* the body of the subscription effect, run with showDrivers = sd
RunEffect(c, sd, reg, d) ==
    IF sd
    THEN /\ nextChannel + Len(Topics(c)) <= MaxChannels + 1
         /\ Cardinality(fetching \cup StartFetches(InitialFetches(c), d)) <= MaxInFlight
         /\ channels' = reg \cup Subscribe(c, nextChannel)
         /\ held' = Ids(Subscribe(c, nextChannel))
         /\ nextChannel' = nextChannel + Len(Topics(c))
         /\ fetching' = fetching \cup StartFetches(InitialFetches(c), d)
    ELSE /\ channels' = reg
         /\ held' = {}
         /\ UNCHANGED <<nextChannel, fetching>>

\* the page with the map component renders: Map.tsx passes showDrivers={true},
\* TripDetails.tsx passes showDrivers={trip.status === 'active'}
Mount(c, sd) ==
    /\ presenter = NoPresenter
    /\ c = "EnhancedMapComponent" => sd
    /\ presenter' = c
    /\ showDrivers' = sd
    /\ \E d \in OrderDesc(table) : RunEffect(c, sd, channels, d)
    /\ NoMarkers
    /\ lastFetch' = NoFetch
    /\ UNCHANGED notices
    /\ UNCHANGED <<component, tableName, table>>
    /\ UNCHANGED <<shareVars, bookVars, createVars, viewVars, pageVars>>

PendingKept(evs, reg) == evs

\* the events that are still to be handed to a channel of reg
Pending(evs, reg) == {e \in evs : e.ch \in Ids(reg)}

\* the component unmounts: React runs the effect's cleanup; the answers still
\* in flight find no component to set the state of, and are followed no further
Teardown ==
    /\ presenter # NoPresenter
    /\ presenter' = NoPresenter
    /\ channels' = Cleanup(channels, held)
    /\ notices' = Pending(notices, channels')
    /\ held' = {}
    /\ fetching' = {}
    /\ NoMarkers
    /\ lastFetch' = NoFetch
    /\ UNCHANGED <<showDrivers, nextChannel>>
    /\ UNCHANGED <<component, tableName, table>>

Unmount ==
    /\ Teardown
    /\ UNCHANGED <<shareVars, bookVars, createVars, viewVars, pageVars>>

\* TripDetails refetches a trip whose status has changed: the prop changes,
\* React runs the cleanup of the last run and then the effect again
SetShowDrivers(sd) ==
    /\ presenter = "MapComponent"
    /\ sd # showDrivers
    /\ showDrivers' = sd
    /\ \E d \in OrderDesc(table) :
            RunEffect(presenter, sd, Cleanup(channels, held), d)
    /\ notices' = Pending(notices, Cleanup(channels, held))
    /\ UNCHANGED <<presenter, lastFetch>>
    /\ UNCHANGED <<dedupVars, shareVars, bookVars, createVars, viewVars, pageVars>>

\* the timestamp of a new row: the clock of the writers has moved on by one
\* tick since the last row (rows of equal timestamps are the subject of the
\* latest-per-actor specification)
NextTs(rows) ==
    IF rows = <<>> THEN {0}
    ELSE {ts \in {rows[Len(rows)].ts + 1} : ts <= MaxTs}

\* some client inserts a row into the table: the store sends a
\* postgres_changes event to every open channel on that table
StoreChange(actor, ts) ==
    /\ Len(table) < MaxChanges
    /\ ts \in NextTs(table)
    /\ table' = Append(table, [id |-> Len(table) + 1, actor |-> actor, ts |-> ts])
    /\ notices' = notices \cup
            {[ch |-> ch.id, row |-> Len(table) + 1] :
                ch \in {x \in channels : x.table = tableName}}
    /\ UNCHANGED <<component, tableName, driverLocations, passengerLocations,
                   mapDriverLocations>>
    /\ UNCHANGED <<presenter, showDrivers, channels, held, nextChannel, fetching,
                   lastFetch>>
    /\ UNCHANGED <<shareVars, bookVars, createVars, viewVars, pageVars>>

\* () => fetchDriverLocations() / () => fetchPassengerLocations(): the
\* callback of the channel sends the select
Deliver(e, d) ==
    /\ e \in notices
    /\ d \in OrderDesc(table)
    /\ notices' = notices \ {e}
    /\ \E ch \in channels :
        /\ ch.id = e.ch
        /\ fetching' = fetching \cup StartFetches({ch.table}, d)
    /\ Cardinality(fetching') <= MaxInFlight
    /\ UNCHANGED <<presenter, showDrivers, channels, held, nextChannel, lastFetch>>
    /\ UNCHANGED <<dedupVars, shareVars, bookVars, createVars, viewVars, pageVars>>

SetMarkersNewestOnly(r) ==
    IF Len(r.rows) < lastFetch.newest
    THEN UNCHANGED <<driverLocations, passengerLocations, mapDriverLocations>>
    ELSE IF presenter = "EnhancedMapComponent" /\ r.table = "driver_locations"
    THEN /\ driverLocations' = DedupFirstSeen(r.rows)
         /\ UNCHANGED <<passengerLocations, mapDriverLocations>>
    ELSE IF presenter = "EnhancedMapComponent"
    THEN /\ passengerLocations' = DedupReplaceGreater(r.rows)
         /\ UNCHANGED <<driverLocations, mapDriverLocations>>
    ELSE /\ mapDriverLocations' = DedupReplaceGreater(r.rows)
         /\ UNCHANGED <<driverLocations, passengerLocations>>

SetMarkersMerged(r) ==
    IF presenter = "EnhancedMapComponent" /\ r.table = "driver_locations"
    THEN /\ driverLocations' = ReduceFirstSeen(driverLocations, r.rows)
         /\ UNCHANGED <<passengerLocations, mapDriverLocations>>
    ELSE IF presenter = "EnhancedMapComponent"
    THEN /\ passengerLocations' = ReduceReplaceGreater(passengerLocations, r.rows)
         /\ UNCHANGED <<driverLocations, mapDriverLocations>>
    ELSE /\ mapDriverLocations' = ReduceReplaceGreater(mapDriverLocations, r.rows)
         /\ UNCHANGED <<driverLocations, passengerLocations>>

\* setDriverLocations(latestLocations) / setPassengerLocations(latestLocations):
\* the state is replaced by the reduced rows of the answer
SetMarkers(r) ==
    IF presenter = "EnhancedMapComponent" /\ r.table = "driver_locations"
    THEN /\ driverLocations' = DedupFirstSeen(r.rows)
         /\ UNCHANGED <<passengerLocations, mapDriverLocations>>
    ELSE IF presenter = "EnhancedMapComponent"
    THEN /\ passengerLocations' = DedupReplaceGreater(r.rows)
         /\ UNCHANGED <<driverLocations, mapDriverLocations>>
    ELSE /\ mapDriverLocations' = DedupReplaceGreater(r.rows)
         /\ UNCHANGED <<driverLocations, passengerLocations>>

\* a location fetch returns: with data, the component reduces the rows and
\* sets its state; with an error (no data) the state stays
FetchDone(r, ok) ==
    /\ r \in fetching
    /\ fetching' = fetching \ {r}
    /\ IF ok
       THEN SetMarkers(r)
       ELSE UNCHANGED <<driverLocations, passengerLocations, mapDriverLocations>>
    /\ lastFetch' = [table |-> r.table, ok |-> ok,
                     newest |-> IF ok /\ Len(r.rows) > lastFetch.newest
                                THEN Len(r.rows) ELSE lastFetch.newest]
    /\ UNCHANGED <<component, tableName, table>>
    /\ UNCHANGED <<presenter, showDrivers, channels, held, nextChannel, notices>>
    /\ UNCHANGED <<shareVars, bookVars, createVars, viewVars, pageVars>>

NextPresenter ==
    \/ \E c \in Presenters, sd \in BOOLEAN : Mount(c, sd)
    \/ Unmount
    \/ \E sd \in BOOLEAN : SetShowDrivers(sd)
    \/ \E actor \in LocActors, ts \in 0..MaxTs : StoreChange(actor, ts)
    \/ \E e \in notices : \E d \in OrderDesc(table) : Deliver(e, d)
    \/ \E r \in fetching, ok \in BOOLEAN : FetchDone(r, ok)

(***************************************************************************)
(* The CreateTrip page: handleSubmit and the trips insert.                 *)
(***************************************************************************)
\* new Date(`${departureDate}T${departureTime}`) of a text that is no date
InvalidDate == -1
NoInsert == [driver |-> NoUser, departure |-> 0, status |-> "none"]
NoCreate == [op |-> "none", user |-> NoUser, departure |-> 0, toast |-> ""]

\* the departures a form can hold at the time of a submission: the present
\* instant, the one before and the one after it, and a text that is no date
FormDepartures(t) == {d \in {t - 1, t, t + 1} : d >= 0} \cup {InvalidDate}

NotInFutureStrict(departure, t) == departure # InvalidDate /\ departure < t

\* departureDateTime <= new Date(): a comparison with an Invalid Date (NaN)
\* is false
NotInFuture(departure, t) == departure # InvalidDate /\ departure <= t

\* tripData
TripData(u, departure) == [driver |-> u, departure |-> departure, status |-> "scheduled"]

Created(u, departure, msg) ==
    [op |-> "handleSubmit", user |-> u, departure |-> departure, toast |-> msg]

\* handleSubmit up to its await: the submit button is disabled while loading
HandleSubmit(departure) ==
    /\ ~loading
    /\ IF profile = NoUser
       THEN /\ lastCreate' = Created(profile, departure, "You must be logged in to create a trip")
            /\ UNCHANGED <<loading, creating>>
       ELSE IF NotInFuture(departure, now)
       THEN /\ lastCreate' = Created(profile, departure, "Departure time must be in the future")
            /\ loading' = FALSE
            /\ UNCHANGED creating
       ELSE IF departure = InvalidDate
       THEN \* departureDateTime.toISOString() throws a RangeError, the catch
            \* shows its message and finally clears the flag
            /\ lastCreate' = Created(profile, departure, "Invalid time value")
            /\ loading' = FALSE
            /\ UNCHANGED creating
       ELSE /\ Len(tripsTable) < MaxTrips
            /\ lastCreate' = Created(profile, departure, "")
            /\ loading' = TRUE
            /\ creating' = TripData(profile, departure)
    /\ UNCHANGED <<now, profile, tripsTable>>
    /\ UNCHANGED <<dedupVars, shareVars, bookVars, presVars, viewVars, pageVars>>

\* the insert returns: the rest of the try block, the catch and the finally
InsertTripComplete(ok) ==
    /\ creating # NoInsert
    /\ tripsTable' = IF ok THEN Append(tripsTable, creating) ELSE tripsTable
    /\ lastCreate' = [lastCreate EXCEPT !.toast = IF ok THEN "Trip created successfully!"
                                                   ELSE "Failed to create trip"]
    /\ loading' = FALSE
    /\ creating' = NoInsert
    /\ UNCHANGED <<now, profile>>
    /\ UNCHANGED <<dedupVars, shareVars, bookVars, presVars, viewVars, pageVars>>

\* a millisecond passes
Tick ==
    /\ now < MaxNow
    /\ now' = now + 1
    /\ UNCHANGED <<profile, loading, tripsTable, creating, lastCreate>>
    /\ UNCHANGED <<dedupVars, shareVars, bookVars, presVars, viewVars, pageVars>>

\* the auth context signs a user in or out
SetProfile(u) ==
    /\ u # profile
    /\ profile' = u
    /\ UNCHANGED <<now, loading, tripsTable, creating, lastCreate>>
    /\ UNCHANGED <<dedupVars, shareVars, bookVars, presVars, viewVars, pageVars>>

CreateUsers == {"u1", "u3"}

NextCreate ==
    \/ \E departure \in FormDepartures(now) : HandleSubmit(departure)
    \/ \E ok \in BOOLEAN : InsertTripComplete(ok)
    \/ Tick
    \/ \E u \in CreateUsers \cup {NoUser} : SetProfile(u)

(***************************************************************************)
(* The map presenter's viewport: the effect on [userPosition,              *)
(* selectedTrip], its delayed fitBounds, and the widget behind mapRef.     *)
(***************************************************************************)
\* a coordinate column that is null
NullCoord == -1
Coords == {NullCoord, 0, 5}
CoordFields == {"start_lat", "start_lng", "dest_lat", "dest_lng"}

MapTrip(id, c) ==
    [id |-> id, start_lat |-> c["start_lat"], start_lng |-> c["start_lng"],
     dest_lat |-> c["dest_lat"], dest_lng |-> c["dest_lng"]]

\* no trip is selected
NoMapTrip == MapTrip(NoTrip, [f \in CoordFields |-> NullCoord])

\* the trips a page can pass: every coordinate is 5, or all but one are
MapTrips ==
    {MapTrip("t1", c) : c \in {c \in [CoordFields -> Coords] :
                                  Cardinality({f \in CoordFields : c[f] # 5}) <= 1}}

NoView == [op |-> "none", result |-> ""]
View(op, result) == [op |-> op, result |-> result]

\* <MapContainer center zoom>: react-leaflet reads both once, at creation
InitialView == [kind |-> "initial"]
\* setView(userPosition, 15)
SetView(pos) == [kind |-> "view", center |-> pos, zoom |-> 15]
\* the bounds array of the effect
Bounds(trip) == <<<<trip.start_lat, trip.start_lng>>, <<trip.dest_lat, trip.dest_lng>>>>
\* fitBounds(bounds, { padding: [50, 50], maxZoom: 15 })
FitBounds(b) == [kind |-> "bounds", bounds |-> b, padding |-> <<50, 50>>, maxZoom |-> 15]

\* a nullable number in a JavaScript condition: null and 0 are both false
Truthy(x) == x # NullCoord /\ x # 0

\* selectedTrip && selectedTrip.start_lat && selectedTrip.start_lng &&
\* selectedTrip.dest_lat && selectedTrip.dest_lng
HasRoute(trip) ==
    /\ trip.id # NoTrip
    /\ Truthy(trip.start_lat) /\ Truthy(trip.start_lng)
    /\ Truthy(trip.dest_lat) /\ Truthy(trip.dest_lng)

\* the branch the effect takes
Decide(trip, pos) ==
    IF mapRef = "null" THEN "return"
    ELSE IF HasRoute(trip) THEN "setTimeout"
    ELSE IF pos # NoPosition /\ trip.id = NoTrip THEN "setView"
    ELSE "nothing"

Unguarded(throws, warning) == IF throws THEN "uncaught" ELSE "ok"

\* try { ... } catch (e) { console.warn(warning, e) }
Guarded(throws, warning) == IF throws THEN warning ELSE "ok"

\* the effect runs with the new dependencies; an error that leaves an effect
\* makes React unmount the tree
ViewEffect(trip, pos, throws) ==
    LET branch == Decide(trip, pos)
        result == IF branch = "setView" THEN Guarded(throws, "Map update error")
                  ELSE branch
    IN  /\ branch # "setView" => ~throws
        /\ branch = "setTimeout" => Len(timers) < MaxTimers
        /\ timers' = IF branch = "setTimeout" THEN Append(timers, Bounds(trip)) ELSE timers
        /\ lastView' = View("effect", result)
        /\ IF result = "uncaught"
           THEN /\ Teardown
                /\ mapRef' = "null"
                /\ viewport' = InitialView
           ELSE /\ viewport' = IF result = "ok" THEN SetView(pos) ELSE viewport
                /\ UNCHANGED <<mapRef, dedupVars, presVars>>

\* the page passes another selectedTrip
SetSelectedTrip(trip) ==
    /\ presenter = "EnhancedMapComponent"
    /\ trip # mapTrip
    /\ mapTrip' = trip
    /\ \E throws \in BOOLEAN : ViewEffect(trip, mapPosition, throws)
    /\ UNCHANGED mapPosition
    /\ UNCHANGED <<shareVars, bookVars, createVars, pageVars>>

\* setUserPosition([latitude, longitude]): a new array each time, so the
\* effect runs again even for the same place
SetUserPosition(pos) ==
    /\ presenter = "EnhancedMapComponent"
    /\ mapPosition' = pos
    /\ \E throws \in BOOLEAN : ViewEffect(mapTrip, pos, throws)
    /\ UNCHANGED mapTrip
    /\ UNCHANGED <<shareVars, bookVars, createVars, pageVars>>

\* react-leaflet has created the Leaflet map and stored it in the ref; no
\* dependency of the effect changes
MapReady ==
    /\ presenter = "EnhancedMapComponent"
    /\ mapRef = "null"
    /\ mapRef' = "map"
    /\ UNCHANGED <<mapTrip, mapPosition, viewport, timers, lastView>>
    /\ UNCHANGED <<dedupVars, shareVars, bookVars, presVars, createVars, pageVars>>

\* the 100 ms are over: mapRef.current.fitBounds(...) in its own try; with
\* the ref null the call is a TypeError
TimerFires(throws) ==
    /\ timers # <<>>
    /\ mapRef = "null" => throws
    /\ LET result == Guarded(throws, "Map bounds error")
       IN  /\ lastView' = View("timeout", result)
           /\ viewport' = IF result = "ok" THEN FitBounds(Head(timers)) ELSE viewport
    /\ timers' = Tail(timers)
    /\ UNCHANGED <<mapRef, mapTrip, mapPosition>>
    /\ UNCHANGED <<dedupVars, shareVars, bookVars, presVars, createVars, pageVars>>

\* the map component unmounts: the subscriptions' cleanup runs, the ref is
\* reset and the state is dropped; no effect clears its timeout
ViewUnmount ==
    /\ Teardown
    /\ mapRef' = "null"
    /\ mapPosition' = NoPosition
    /\ viewport' = InitialView
    /\ lastView' = View("unmount", "")
    /\ UNCHANGED <<mapTrip, timers>>
    /\ UNCHANGED <<shareVars, bookVars, createVars, pageVars>>

NextView ==
    \/ Mount("EnhancedMapComponent", TRUE)
    \/ \E r \in fetching, ok \in BOOLEAN : FetchDone(r, ok)
    \/ MapReady
    \/ \E trip \in MapTrips \cup {NoMapTrip} : SetSelectedTrip(trip)
    \/ \E pos \in Lats : SetUserPosition(pos)
    \/ \E throws \in BOOLEAN : TimerFires(throws)
    \/ ViewUnmount

(***************************************************************************)
(* The TripDetails page: fetchTripDetails, the fetchExisting effect,       *)
(* canBook, the booking form and handleBookingSubmit.                      *)
(***************************************************************************)
PageTrip == "t1"
PageUsers == {"u1", "u2"}

\* (data || []).find(b => b.status === 'pending' || b.status === 'accepted')
\* over the bookings of user u on the trip
FindExisting(u, rows) ==
    IF \E i \in DOMAIN rows :
            /\ rows[i].trip = PageTrip
            /\ rows[i].passenger = u
            /\ rows[i].status \in {"pending", "accepted"}
    THEN "found" ELSE "null"

CanBookUnchecked == pageUser # NoUser /\ ~OwnTrip(pageUser, trips[PageTrip])

\* const canBook = user && !isDriver && trip.status === 'scheduled' &&
\*                 trip.available_seats > 0 && !existingBooking
CanBook ==
    /\ pageUser # NoUser
    /\ ~OwnTrip(pageUser, trips[PageTrip])
    /\ trips[PageTrip].status = "scheduled"
    /\ trips[PageTrip].available_seats > 0
    /\ existingBooking = "null"

\* /trip/:id or /trip/:id?book=true is opened by user u: the state is
\* initialised and both effects start their requests
OpenPage(u, book) ==
    /\ ~pageOpen
    /\ pageOpen' = TRUE
    /\ pageUser' = u
    /\ pageLoading' = TRUE
    /\ existingBooking' = "null"
    /\ showBookingForm' = book
    /\ lookup' = IF u = NoUser THEN "idle" ELSE "sent"
    /\ UNCHANGED <<dedupVars, shareVars, bookVars, presVars, createVars, viewVars>>

\* fetchTripDetails has its answer: setTrip, setLoading(false)
TripLoaded ==
    /\ pageOpen
    /\ pageLoading
    /\ pageLoading' = FALSE
    /\ UNCHANGED <<pageOpen, pageUser, existingBooking, showBookingForm, lookup>>
    /\ UNCHANGED <<dedupVars, shareVars, bookVars, presVars, createVars, viewVars>>

\* the store evaluates the query of fetchExisting
LookupAnswered ==
    /\ lookup = "sent"
    /\ lookup' = FindExisting(pageUser, bookings)
    /\ UNCHANGED <<pageOpen, pageUser, pageLoading, existingBooking, showBookingForm>>
    /\ UNCHANGED <<dedupVars, shareVars, bookVars, presVars, createVars, viewVars>>

\* the answer arrives: setExistingBooking(existing)
LookupDone ==
    /\ lookup \in {"null", "found"}
    /\ existingBooking' = lookup
    /\ lookup' = "idle"
    /\ UNCHANGED <<pageOpen, pageUser, pageLoading, showBookingForm>>
    /\ UNCHANGED <<dedupVars, shareVars, bookVars, presVars, createVars, viewVars>>

\* the Request to Join button
RequestToJoin ==
    /\ pageOpen /\ ~pageLoading
    /\ CanBook
    /\ ~showBookingForm
    /\ showBookingForm' = TRUE
    /\ UNCHANGED <<pageOpen, pageUser, pageLoading, existingBooking, lookup>>
    /\ UNCHANGED <<dedupVars, shareVars, bookVars, presVars, createVars, viewVars>>

\* the form, rendered under canBook && showBookingForm, is submitted:
\* handleBookingSubmit with its state updates after a successful insert
PageSubmit(seats, ok) ==
    /\ pageOpen /\ ~pageLoading
    /\ CanBook
    /\ showBookingForm
    /\ SubmitBooking(pageUser, PageTrip, seats, ok)
    /\ IF lastOp'.toast = "Booking request sent successfully!"
       THEN /\ showBookingForm' = FALSE
            /\ existingBooking' = "temp"
       ELSE UNCHANGED <<showBookingForm, existingBooking>>
    /\ UNCHANGED <<pageOpen, pageUser, pageLoading, lookup>>
    /\ UNCHANGED <<dedupVars, shareVars, presVars, createVars, viewVars>>

\* the user leaves the page; an answer still on its way finds no component
ClosePage ==
    /\ pageOpen
    /\ pageOpen' = FALSE
    /\ pageUser' = NoUser
    /\ pageLoading' = FALSE
    /\ existingBooking' = "null"
    /\ showBookingForm' = FALSE
    /\ lookup' = "idle"
    /\ UNCHANGED <<dedupVars, shareVars, bookVars, presVars, createVars, viewVars>>

NextTripPage ==
    \/ \E u \in PageUsers \cup {NoUser}, book \in BOOLEAN : OpenPage(u, book)
    \/ TripLoaded
    \/ LookupAnswered
    \/ LookupDone
    \/ RequestToJoin
    \/ \E ok \in BOOLEAN : \E seats \in FormSeats(trips[PageTrip]) : PageSubmit(seats, ok)
    \/ ClosePage

(***************************************************************************)
(* Initial states and specifications.                                      *)
(***************************************************************************)
InitPageIdle ==
    /\ pageOpen = FALSE
    /\ pageUser = NoUser
    /\ pageLoading = FALSE
    /\ existingBooking = "null"
    /\ showBookingForm = FALSE
    /\ lookup = "idle"

InitViewIdle ==
    /\ mapRef = "null"
    /\ mapTrip = NoMapTrip
    /\ mapPosition = NoPosition
    /\ viewport = InitialView
    /\ timers = <<>>
    /\ lastView = NoView

InitCreateIdle ==
    /\ now = 0
    /\ profile = NoUser
    /\ loading = FALSE
    /\ tripsTable = <<>>
    /\ creating = NoInsert
    /\ lastCreate = NoCreate

InitShareRun ==
    /\ page = "Landing"
    /\ inst = 0
    /\ isSharing = FALSE
    /\ locationWatchId = 0
    /\ watches = {}
    /\ nextWatchId = 1
    /\ selectedTrip = NoTrip
    /\ userPosition = NoPosition
    /\ inflight = {}
    /\ samples = 0
    /\ driver_locations = <<>>
    /\ passenger_locations = <<>>
    /\ toast = ""

InitPresIdle ==
    /\ presenter = NoPresenter
    /\ showDrivers = FALSE
    /\ channels = {}
    /\ held = {}
    /\ nextChannel = 1
    /\ notices = {}
    /\ fetching = {}
    /\ lastFetch = NoFetch

InitBookRun ==
    /\ bookings = <<>>
    /\ driverBookings = [u \in Users |-> {}]
    /\ passengerBookings = [u \in Users |-> {}]
    /\ dispatches = {}
    /\ lastOp = NoOp

InitBookIdle ==
    /\ trips = [t \in TripIds |-> Trip("u1", 1)]
    /\ InitBookRun

\* trip t1 is driven by u1
InitBook ==
    /\ \E n \in SeatCounts : trips = [t \in TripIds |-> Trip("u1", n)]
    /\ InitBookRun

InitShareIdle ==
    /\ build = "insert"
    /\ isSecureContext = TRUE
    /\ hasGeolocation = TRUE
    /\ user = NoUser
    /\ role = "passenger"
    /\ InitShareRun

InitShare ==
    /\ build \in {"insert", "upsert"}
    /\ isSecureContext \in BOOLEAN
    /\ hasGeolocation \in BOOLEAN
    /\ user \in {"u1", NoUser}
    /\ role \in {"driver", "passenger"}
    /\ user = NoUser => role = "passenger"
    /\ InitShareRun

InitDedupIdle ==
    /\ driverLocations = <<>>
    /\ passengerLocations = <<>>
    /\ mapDriverLocations = <<>>

\* MapComponent shows drivers only; EnhancedMapComponent reads both tables
InitDedup ==
    /\ component \in {"EnhancedMapComponent", "MapComponent"}
    /\ tableName \in {"driver_locations", "passenger_locations"}
    /\ component = "MapComponent" => tableName = "driver_locations"
    /\ table \in Tables
    /\ InitDedupIdle
    /\ InitShareIdle
    /\ InitBookIdle
    /\ InitPresIdle
    /\ InitCreateIdle
    /\ InitViewIdle
    /\ InitPageIdle

NextDedup ==
    \/ FetchDriverLocations
    \/ FetchPassengerLocations
    \/ MapFetchDriverLocations

SpecDedup == InitDedup /\ [][NextDedup]_vars

\* the Map page lists the scheduled and active trips of every driver: trip t1
\* is the signed-in user's own or another driver's; nobody has booked it
InitShareTrips ==
    /\ \E d \in {"u1", "u3"} : trips = [t \in TripIds |-> Trip(d, 1)]
    /\ InitBookRun

InitShareSpec ==
    /\ component = "EnhancedMapComponent"
    /\ tableName = "driver_locations"
    /\ table = <<>>
    /\ InitDedupIdle
    /\ InitShare
    /\ InitShareTrips
    /\ InitPresIdle
    /\ InitCreateIdle
    /\ InitViewIdle
    /\ InitPageIdle

SpecShare == InitShareSpec /\ [][NextShare]_vars

InitBookingSpec ==
    /\ component = "EnhancedMapComponent"
    /\ tableName = "driver_locations"
    /\ table = <<>>
    /\ InitDedupIdle
    /\ InitShareIdle
    /\ InitBook
    /\ InitPresIdle
    /\ InitCreateIdle
    /\ InitViewIdle
    /\ InitPageIdle

SpecBooking == InitBookingSpec /\ [][NextBooking]_vars

\* the table that has rows in this run is chosen at the start; the store
\* starts empty or with one row
InitPresenterSpec ==
    /\ component = "EnhancedMapComponent"
    /\ tableName \in {"driver_locations", "passenger_locations"}
    /\ table \in {t \in Tables : Len(t) = 0 \/ (Len(t) = 1 /\ t[1].ts = 0)}
    /\ InitDedupIdle
    /\ InitShareIdle
    /\ InitBookIdle
    /\ InitPresIdle
    /\ InitCreateIdle
    /\ InitViewIdle
    /\ InitPageIdle

SpecPresenter == InitPresenterSpec /\ [][NextPresenter]_vars

InitCreateSpec ==
    /\ component = "EnhancedMapComponent"
    /\ tableName = "driver_locations"
    /\ table = <<>>
    /\ InitDedupIdle
    /\ InitShareIdle
    /\ InitBookIdle
    /\ InitPresIdle
    /\ InitCreateIdle
    /\ InitViewIdle
    /\ InitPageIdle

SpecCreate == InitCreateSpec /\ [][NextCreate]_vars

\* one driver has a row in the store; the page may open with a trip selected
InitViewSpec ==
    /\ component = "EnhancedMapComponent"
    /\ tableName = "driver_locations"
    /\ table \in {t \in Tables : Len(t) = 1 /\ t[1].ts = 0}
    /\ InitDedupIdle
    /\ InitShareIdle
    /\ InitBookIdle
    /\ InitPresIdle
    /\ InitCreateIdle
    /\ mapRef = "null"
    /\ mapTrip \in {NoMapTrip, MapTrip("t1", [f \in CoordFields |-> 5])}
    /\ mapPosition = NoPosition
    /\ viewport = InitialView
    /\ timers = <<>>
    /\ lastView = NoView
    /\ InitPageIdle

SpecView == InitViewSpec /\ [][NextView]_vars

InitTripPageSpec ==
    /\ component = "EnhancedMapComponent"
    /\ tableName = "driver_locations"
    /\ table = <<>>
    /\ InitDedupIdle
    /\ InitShareIdle
    /\ InitBook
    /\ InitPresIdle
    /\ InitCreateIdle
    /\ InitViewIdle
    /\ InitPageIdle

SpecTripPage == InitTripPageSpec /\ [][NextTripPage]_vars

\* two trips, of driver u1 and of driver u3
InitDeleteSpec ==
    /\ component = "EnhancedMapComponent"
    /\ tableName = "driver_locations"
    /\ table = <<>>
    /\ InitDedupIdle
    /\ InitShareIdle
    /\ \E n \in SeatCounts :
            trips = [t \in DeleteTripIds |-> Trip(IF t = "t1" THEN "u1" ELSE "u3", n)]
    /\ InitBookRun
    /\ InitPresIdle
    /\ InitCreateIdle
    /\ InitViewIdle
    /\ InitPageIdle

SpecDelete == InitDeleteSpec /\ [][NextDelete]_vars

(***************************************************************************)
(* C2: no location row is persisted while the secure-context precondition  *)
(* is false, on any path that submits a sample.                            *)
(***************************************************************************)
\* C2: in an insecure context both location tables stay as they started (empty).
C2_NoRowWhenInsecure ==
    ~isSecureContext => driver_locations = <<>> /\ passenger_locations = <<>>

(***************************************************************************)
(* C3: submitting a sample only appends: every stored row stays as it is   *)
(* and a step adds at most one row.                                        *)
(***************************************************************************)
IsPrefix(s, t) == Len(s) <= Len(t) /\ \A i \in DOMAIN s : t[i] = s[i]

C4_RejectStopsStream ==
    [][toast = "Failed to update location"
        => \A r \in inflight' \ inflight : r.kind = "mapInsert"]_vars

(***************************************************************************)
(* C10: after stopLocationSharing no watch started by startLocationSharing *)
(* is active and the sharing flag is off.                                  *)
(***************************************************************************)
\* C10: right after stopLocationSharing (its toast is the last one shown) the
\* sharing flag is off and the only watches left are the map component's.
C10_StopLeavesNoWatch ==
    toast = "Location sharing stopped"
        => /\ ~isSharing
           /\ \A w \in watches : w.owner \in MapKinds

(***************************************************************************)
(* C1: the latest-per-actor dedup returns exactly one row per actor of the *)
(* input and no other, and that row carries the actor's maximum timestamp. *)
(***************************************************************************)
ActorsOf(rows) == {rows[i].actor : i \in DOMAIN rows}

MaxTsOf(rows, a) ==
    CHOOSE m \in {rows[i].ts : i \in {j \in DOMAIN rows : rows[j].actor = a}} :
        \A i \in DOMAIN rows : rows[i].actor = a => rows[i].ts <= m

LatestPerActor(view, rows) ==
    /\ ActorsOf(view) = ActorsOf(rows)
    /\ \A i, j \in DOMAIN view : view[i].actor = view[j].actor => i = j
    /\ \A i \in DOMAIN view :
        /\ view[i] \in Range(rows)
        /\ view[i].ts = MaxTsOf(rows, view[i].actor)

\* C1: whenever a fetch stores a view, the view is the latest row per actor of
\* the rows of the table the query read (all three dedup sites).
C1_LatestPerActor ==
    [][/\ driverLocations' # driverLocations => LatestPerActor(driverLocations', table)
       /\ passengerLocations' # passengerLocations
            => LatestPerActor(passengerLocations', table)
       /\ mapDriverLocations' # mapDriverLocations
            => LatestPerActor(mapDriverLocations', table)]_vars

\* two actors, one with an older and a newer sample, and the view holds only the newer
C1_Witness ==
    /\ \E i, j \in DOMAIN table :
        /\ table[i].actor = table[j].actor
        /\ table[i].ts < table[j].ts
        /\ table[j] \in Range(passengerLocations)
        /\ table[i] \notin Range(passengerLocations)
    /\ Cardinality(ActorsOf(table)) = 2
    /\ Len(passengerLocations) = 2

\* C5: a booking request for more seats than the trip has available is
\* rejected with a validation error and leaves the bookings store unchanged:
\* no step persists a row whose seats exceed its trip's available_seats, the
\* "Not enough seats available" rejection leaves the store as it was, and a
\* submission either adds exactly one row or shows an error and adds none.
C5_TooManySeatsRejected ==
    [][/\ Len(bookings') > Len(bookings) =>
            bookings'[Len(bookings')].seats
                <= trips[bookings'[Len(bookings')].trip].available_seats
       /\ (lastOp' # lastOp /\ lastOp'.op = "handleBookingSubmit"
                /\ lastOp'.toast = "Not enough seats available") =>
            bookings' = bookings
       /\ (lastOp' # lastOp /\ lastOp'.op = "handleBookingSubmit") =>
            \/ /\ lastOp'.toast = "Booking request sent successfully!"
               /\ bookings' # bookings
            \/ /\ lastOp'.toast \in {"You must be logged in to book a trip",
                                     "You can't book your own trip",
                                     "Not enough seats available",
                                     "Failed to send booking request"}
               /\ bookings' = bookings]_vars

C5_Witness ==
    /\ lastOp.op = "handleBookingSubmit"
    /\ lastOp.user \in Users
    /\ lastOp.toast = "Not enough seats available"
    /\ Len(bookings) = 1

\* C6: the status of a booking becomes accepted or rejected only in a step
\* taken by the driver of the booking's trip, and becomes cancelled only in a
\* step taken by the booking's passenger; no step of anybody else changes it.
C6_OnlyDriverDecides ==
    [][\A i \in DOMAIN bookings :
        (i \in DOMAIN bookings' /\ bookings'[i].status # bookings[i].status) =>
            /\ bookings'[i].status \in {"accepted", "rejected", "cancelled"}
            /\ lastOp'.op = bookings'[i].status
            /\ bookings'[i].status \in {"accepted", "rejected"} =>
                    lastOp'.user = trips[bookings[i].trip].driver
            /\ bookings'[i].status = "cancelled" =>
                    lastOp'.user = bookings[i].passenger]_vars

C6_Witness ==
    \E i, j \in DOMAIN bookings :
        /\ bookings[i].status = "accepted"
        /\ bookings[j].status = "cancelled"
        /\ lastOp.op = "cancelled"
        /\ lastOp.user = bookings[j].passenger

C8_BookingCreatedPending ==
    [][/\ bookings' # bookings /\ Len(bookings') # Len(bookings) =>
            /\ bookings' = Append(bookings, bookings'[Len(bookings')])
            /\ lastOp'.op = "handleBookingSubmit"
            /\ lastOp'.user \in Users
            /\ lastOp'.trip \in DOMAIN trips
            /\ lastOp'.user # trips[lastOp'.trip].driver
            /\ bookings'[Len(bookings')].status = "pending"
            /\ bookings'[Len(bookings')].passenger = lastOp'.user
            /\ bookings'[Len(bookings')].trip = lastOp'.trip
       /\ (lastOp' # lastOp /\ lastOp'.op = "handleBookingSubmit"
                /\ lastOp'.toast = "Booking request sent successfully!") =>
            Len(bookings') = Len(bookings) + 1]_vars

C8_Witness ==
    /\ lastOp.toast = "Booking request sent successfully!"
    /\ Len(bookings) = 2
    /\ bookings[2].status = "pending"
    /\ bookings[2].passenger = lastOp.user
    /\ bookings[2].seats = 2

Subscribed == held # {}

C11_SubscribedWhileShown ==
    [][/\ Subscribed' <=> (presenter' # NoPresenter /\ showDrivers')
       /\ (~Subscribed /\ Subscribed') =>
            LET shown == IF presenter' = "EnhancedMapComponent"
                         THEN {"driver_locations", "passenger_locations"}
                         ELSE {"driver_locations"}
            IN  /\ \A tbl \in shown : \E d \in OrderDesc(RowsOf(tbl)) :
                        Fetch(tbl, d) \in fetching'
                /\ {ch.table : ch \in channels'} = shown
                /\ Ids(channels') = held'
       /\ ~Subscribed' => channels' = {} /\ notices' = {}
       /\ (~Subscribed /\ ~Subscribed') => fetching' \subseteq fetching]_vars

C11_Witness ==
    /\ presenter = "EnhancedMapComponent"
    /\ Cardinality(held) = 2
    /\ nextChannel > 3
    /\ Len(table) = 2
    /\ Fetch(tableName, <<table[2], table[1]>>) \in fetching
    /\ notices = {}

\* the location state of component c that holds the rows of table tbl
Markers(c, tbl) ==
    IF c = "MapComponent" THEN mapDriverLocations
    ELSE IF tbl = "driver_locations" THEN driverLocations
    ELSE passengerLocations

\* the reduction component c applies to the rows of table tbl
Reduced(c, tbl, rows) ==
    IF c = "EnhancedMapComponent" /\ tbl = "driver_locations"
    THEN DedupFirstSeen(rows)
    ELSE DedupReplaceGreater(rows)

\* C12: while subscribed, the callback of every change event sends the
\* latest-per-actor query again, and a fetch that returns with data replaces
\* the markers as a whole: the new state is the reduced answer, it holds the
\* latest row of every actor of the answer, and it keeps a marker of the state
\* before only if that row is in the answer.
C12_RefreshReplacesMarkers ==
    [][/\ \A e \in notices \ notices' :
            channels' = channels =>
                \E ch \in channels :
                    /\ ch.id = e.ch
                    /\ \E d \in OrderDesc(RowsOf(ch.table)) :
                            Fetch(ch.table, d) \in fetching'
       /\ \A r \in fetching \ fetching' :
            (presenter' = presenter /\ lastFetch'.ok) =>
                /\ Markers(presenter, r.table)' = Reduced(presenter, r.table, r.rows)
                /\ LatestPerActor(Markers(presenter, r.table)', r.rows)
                /\ Range(Markers(presenter, r.table)) \cap Range(Markers(presenter, r.table)')
                        \subseteq Range(r.rows)]_vars

C12_Witness ==
    /\ presenter = "EnhancedMapComponent"
    /\ tableName = "passenger_locations"
    /\ lastFetch = [table |-> "passenger_locations", ok |-> TRUE, newest |-> 2]
    /\ Len(table) = 2
    /\ table[1].actor # table[2].actor
    /\ passengerLocations = <<table[2], table[1]>>
    /\ fetching = {}

\* C20: with two fetches of one table in flight, the one that returns with
\* data sets the markers to its own answer, whatever the other one has read
\* and whatever an earlier answer has brought: when both have returned, the
\* markers are those of the answer that came last, even if it is the older one.
C20_LastAnswerWins ==
    [][\A r1, r2 \in fetching :
        (/\ r1 # r2
         /\ r1.table = r2.table
         /\ r1 \notin fetching'
         /\ presenter' = presenter
         /\ lastFetch'.ok) =>
            /\ r2 \in fetching'
            /\ Markers(presenter, r1.table)' = Reduced(presenter, r1.table, r1.rows)
            /\ lastFetch'.newest >= Len(r1.rows)]_vars

\* both fetches have returned, the older answer last: the markers are those
\* of the older answer and not those of the rows the store holds
C20_Witness ==
    /\ presenter = "EnhancedMapComponent"
    /\ tableName = "driver_locations"
    /\ fetching = {}
    /\ notices = {}
    /\ lastFetch = [table |-> "driver_locations", ok |-> TRUE, newest |-> 2]
    /\ Len(table) = 2
    /\ driverLocations = <<table[1]>>
    /\ table[2].actor # table[1].actor

\* two results name the same actors, each with a row of the same timestamp
SameActorsAndTs(v, w) ==
    /\ ActorsOf(v) = ActorsOf(w)
    /\ \A i \in DOMAIN v, j \in DOMAIN w : v[i].actor = w[j].actor => v[i].ts = w[j].ts

\* C13: two runs of the latest-per-actor query on the same rows give the same
\* actors, each with a row of the same timestamp, in whatever order the store
\* returns rows of equal timestamps: every answer the store can give for the
\* table reduces to the same actors and timestamps as one fixed answer, and
\* so does every run that can follow the run that has set the state.
C13_DedupIdempotent ==
    /\ LET d1 == CHOOSE d \in OrderDesc(table) : TRUE
       IN  \A d2 \in OrderDesc(table) :
            /\ SameActorsAndTs(DedupFirstSeen(d1), DedupFirstSeen(d2))
            /\ SameActorsAndTs(DedupReplaceGreater(d1), DedupReplaceGreater(d2))
    /\ \A d \in OrderDesc(table) :
        /\ driverLocations # <<>> => SameActorsAndTs(driverLocations, DedupFirstSeen(d))
        /\ passengerLocations # <<>> =>
                SameActorsAndTs(passengerLocations, DedupReplaceGreater(d))
        /\ mapDriverLocations # <<>> =>
                SameActorsAndTs(mapDriverLocations, DedupReplaceGreater(d))

\* a run has kept, of two rows of one actor with the same latest timestamp,
\* the one the table holds second
C13_Witness ==
    /\ Len(driverLocations) = 2
    /\ \E i, j \in DOMAIN table :
        /\ i < j
        /\ table[i].actor = table[j].actor
        /\ table[i].ts = table[j].ts
        /\ table[j] \in Range(driverLocations)

\* C14: a booking request of the trip's own driver is rejected with the
\* message "You can't book your own trip" and leaves the bookings store as it
\* was; no bookings row ever names the driver of its trip as passenger.
C14_OwnTripRejected ==
    [][/\ (/\ lastOp' # lastOp
           /\ lastOp'.op = "handleBookingSubmit"
           /\ lastOp'.user \in Users
           /\ lastOp'.user = trips[lastOp'.trip].driver) =>
                /\ lastOp'.toast = "You can't book your own trip"
                /\ bookings' = bookings
       /\ \A i \in DOMAIN bookings' :
            bookings'[i].passenger # trips[bookings'[i].trip].driver]_vars

C14_Witness ==
    /\ lastOp.op = "handleBookingSubmit"
    /\ lastOp.user = trips[lastOp.trip].driver
    /\ lastOp.toast = "You can't book your own trip"
    /\ Len(bookings) = 1

\* C15: the notification call is fire-and-forget. A call is started only by
\* an accept or reject whose status update succeeded, one call per update and
\* of the type of the new status; an update that failed starts none; the
\* return of a call, failed or not, starts no call again, shows no toast and
\* changes no list.
C15_FireAndForget ==
    [][/\ ~(dispatches' \subseteq dispatches) =>
            /\ Cardinality(dispatches' \ dispatches) = 1
            /\ dispatches \subseteq dispatches'
            /\ lastOp'.toast \in {"Booking accepted!", "Booking rejected!"}
            /\ \A d \in dispatches' \ dispatches :
                /\ lastOp'.op = bookings'[d.booking].status
                /\ d.type = NotificationType(lastOp'.op)
       /\ (lastOp' # lastOp /\ lastOp'.op \in {"accepted", "rejected"}
                /\ lastOp'.toast = "Failed to update booking") =>
            dispatches' = dispatches /\ bookings' = bookings
       /\ (lastOp' # lastOp /\ lastOp'.op = "console.warn") =>
            /\ dispatches' \subseteq dispatches
            /\ dispatches' # dispatches
       /\ (dispatches' # dispatches /\ dispatches' \subseteq dispatches) =>
            /\ Cardinality(dispatches \ dispatches') = 1
            /\ lastOp'.toast = lastOp.toast
            /\ driverBookings' = driverBookings
            /\ passengerBookings' = passengerBookings]_vars

\* a rejection's notification has failed: nothing is in flight, the toast of
\* the rejection is still the last one shown
C15_Witness ==
    /\ lastOp.op = "console.warn"
    /\ lastOp.toast = "Booking rejected!"
    /\ dispatches = {}
    /\ \E i \in DOMAIN bookings : bookings[i].status = "rejected"

(***************************************************************************)
(* C16: a geolocation error on one sample does not end sharing.            *)
(***************************************************************************)
\* C16: the step in which a dashboard watch's error callback reports a failed
\* sample (its message becomes the one shown) leaves the sharing flag as it
\* was, so a dashboard that was sharing is still sharing.
C16_ErrorKeepsSharing ==
    [][(toast' = "Failed to get location" /\ toast' # toast)
        => isSharing' = isSharing]_vars

(***************************************************************************)
(* C17: CreateTrip refuses a departure that is not strictly in the future, *)
(* and every trip it creates is scheduled and driven by its creator.       *)
(***************************************************************************)
\* C17: a submission by a signed-in user whose departure is an instant not
\* after the present one shows the validation message, leaves the trips
\* table as it was, starts no insert and leaves the loading flag off; an
\* insert is started only for a departure after the present instant, with
\* status scheduled and the submitting user as driver; and every row that
\* enters the trips table is the row of such an insert.
C17_PastDepartureRejected ==
    [][/\ (/\ lastCreate' # lastCreate
           /\ lastCreate'.op = "handleSubmit"
           /\ creating = NoInsert
           /\ profile # NoUser
           /\ lastCreate'.departure # InvalidDate
           /\ lastCreate'.departure <= now) =>
                /\ lastCreate'.toast = "Departure time must be in the future"
                /\ tripsTable' = tripsTable
                /\ creating' = NoInsert
                /\ ~loading'
       /\ (creating' # creating /\ creating' # NoInsert) =>
                /\ creating'.departure > now
                /\ creating'.status = "scheduled"
                /\ creating'.driver = profile
                /\ profile \in Users
                /\ loading'
       /\ tripsTable' # tripsTable =>
                /\ tripsTable' = Append(tripsTable, creating)
                /\ creating.status = "scheduled"
                /\ creating.driver = lastCreate.user
                /\ creating.driver \in Users
                /\ ~loading']_vars

\* a trip of u1 is in the store and a later submission of u1, with the
\* present instant as departure, has been refused
C17_Witness ==
    /\ Len(tripsTable) = 1
    /\ tripsTable[1].driver = "u1"
    /\ tripsTable[1].status = "scheduled"
    /\ lastCreate = Created("u1", now, "Departure time must be in the future")
    /\ ~loading

(***************************************************************************)
(* C18: what the viewport effect decides.                                  *)
(***************************************************************************)
\* the trip has a number in each of its four coordinate columns
AllSet(trip) ==
    /\ trip.id # NoTrip
    /\ \A f \in CoordFields : trip[f] # NullCoord

\* this step ran the viewport effect of the mounted map
EffectStep ==
    /\ lastView'.op = "effect"
    /\ lastView' # lastView \/ mapTrip' # mapTrip \/ mapPosition' # mapPosition

\* C18: when the effect runs with the widget ready, a selected trip whose four
\* coordinates are all numbers gets a fitBounds of its two endpoints
\* scheduled, which then shows them with padding 50 and zoom at most 15; with
\* no trip selected and the own position known the map is centred there at
\* zoom 15 (unless setView throws); in every other case the viewport and the
\* scheduled calls stay as they were.
C18_ViewportDecision ==
    [][/\ (EffectStep /\ mapRef = "map") =>
            IF AllSet(mapTrip')
            THEN timers' = Append(timers, Bounds(mapTrip'))
            ELSE IF mapTrip'.id = NoTrip /\ mapPosition' # NoPosition
            THEN /\ \/ viewport' = SetView(mapPosition')
                    \/ lastView'.result = "Map update error"
                 /\ timers' = timers
            ELSE viewport' = viewport /\ timers' = timers
       /\ (timers' # timers /\ lastView'.op = "timeout" /\ lastView'.result = "ok") =>
            viewport' = FitBounds(Head(timers))]_vars

(***************************************************************************)
(* C19: a failure to adjust the viewport stays inside the presenter.       *)
(***************************************************************************)
\* C19: no run of the viewport code ends with an error that was not caught,
\* and a run that could not adjust the viewport (the effect found no widget,
\* setView threw, or the delayed fitBounds threw or found the widget gone)
\* leaves the viewport, the markers, the subscriptions and the fetches in
\* flight as they were.
C19_ViewFailureContained ==
    [][/\ lastView'.result # "uncaught"
       /\ (/\ lastView' # lastView
           /\ lastView'.result \in {"return", "Map update error", "Map bounds error"}) =>
                /\ viewport' = viewport
                /\ presenter' = presenter
                /\ driverLocations' = driverLocations
                /\ passengerLocations' = passengerLocations
                /\ channels' = channels
                /\ held' = held
                /\ notices' = notices
                /\ fetching' = fetching]_vars

\* setView has thrown while the map was subscribed and showed a driver
C19_Witness ==
    /\ lastView = View("effect", "Map update error")
    /\ presenter = "EnhancedMapComponent"
    /\ held # {}
    /\ driverLocations # <<>>
    /\ mapRef = "map"

(***************************************************************************)
(* C21: the two dedup implementations agree.                               *)
(***************************************************************************)
\* the (actor id, timestamp) pairs of a result
PairsOf(rows) == {<<rows[i].actor, rows[i].ts>> : i \in DOMAIN rows}

\* the rows of t in the arrangement p
Permuted(t, p) == [i \in DOMAIN t |-> t[p[i]]]

\* on every answer sorted by timestamp descending both reducers return the
\* same pairs
C21_AgreeOnSorted ==
    \A d \in OrderDesc(table) :
        PairsOf(DedupFirstSeen(d)) = PairsOf(DedupReplaceGreater(d))

\* C21: first-seen-wins and replace-on-strictly-greater return the same
\* (actor id, timestamp) pairs on every answer sorted by timestamp descending,
\* and replace-on-strictly-greater returns those pairs for every arrangement
\* of the same rows.
C21_DedupsAgree ==
    /\ C21_AgreeOnSorted
    /\ \A d \in OrderDesc(table) : \A p \in Perms[Len(table)] :
        PairsOf(DedupReplaceGreater(Permuted(table, p))) = PairsOf(DedupFirstSeen(d))

(***************************************************************************)
(* C22: trip-tagged location rows come from participants of the trip.      *)
(***************************************************************************)
\* u drives trip t or has a booking on it
Participant(u, t) ==
    \/ trips[t].driver = u
    \/ \E i \in DOMAIN bookings : bookings[i].trip = t /\ bookings[i].passenger = u

\* C22: every stored location row that carries a trip id was written by a
\* participant of that trip, and every driver_locations row that carries a
\* trip id was written by the driver of that trip.
C22_TripRowsFromParticipants ==
    /\ \A i \in DOMAIN driver_locations :
        driver_locations[i].trip # NoTrip =>
            trips[driver_locations[i].trip].driver = driver_locations[i].actor
    /\ \A i \in DOMAIN passenger_locations :
        passenger_locations[i].trip # NoTrip =>
            Participant(passenger_locations[i].actor, passenger_locations[i].trip)

(***************************************************************************)
(* C23: on a dashboard the sharing flag matches the device watch.          *)
(***************************************************************************)
\* the watches registered by a dashboard's startLocationSharing
DashboardWatches == {w \in watches : w.owner \notin MapKinds}

\* C23: while a dashboard is shown, exactly one watch started by
\* startLocationSharing is active when the sharing flag is on, and none when
\* it is off.
C23_FlagMatchesWatch ==
    page \in Dashboards =>
        IF isSharing THEN Cardinality(DashboardWatches) = 1
        ELSE DashboardWatches = {}

(***************************************************************************)
(* C24: a booking's status changes only out of pending.                    *)
(***************************************************************************)
\* C24: no step changes the status of a booking that is accepted, rejected
\* or cancelled.
C24_OnlyOutOfPending ==
    [][\A i \in DOMAIN bookings :
        bookings[i].status # "pending" => bookings'[i].status = bookings[i].status]_vars

(***************************************************************************)
(* C26: a passenger has at most one live booking on a trip.                *)
(***************************************************************************)
\* booking i is pending or accepted
Live(i) == bookings[i].status \in {"pending", "accepted"}

\* C26: no two bookings of one passenger on one trip are both pending or
\* accepted.
C26_OneLiveBooking ==
    \A i, j \in DOMAIN bookings :
        (/\ i # j
         /\ bookings[i].passenger = bookings[j].passenger
         /\ bookings[i].trip = bookings[j].trip
         /\ Live(i)) => ~Live(j)

(***************************************************************************)
(* C25: the accepted bookings of a trip fit into its seats.                *)
(***************************************************************************)
\* the seats of the accepted bookings on trip t among the first n rows
RECURSIVE AcceptedSeats(_, _)
AcceptedSeats(t, n) ==
    IF n = 0 THEN 0
    ELSE AcceptedSeats(t, n - 1) +
            (IF bookings[n].trip = t /\ bookings[n].status = "accepted"
             THEN bookings[n].seats ELSE 0)

\* C25: for every trip the seats requested by its accepted bookings add up to
\* no more than the trip's available_seats.
C25_AcceptedSeatsFit ==
    \A t \in DOMAIN trips : AcceptedSeats(t, Len(bookings)) <= trips[t].available_seats

ShowsTable ==
    presenter = "EnhancedMapComponent" \/ tableName = "driver_locations"

\* nothing is left to happen for the view: the presenter is subscribed, every
\* change event has been delivered and every fetch has returned, the last one
\* with data, and an answer with all the rows of the table has come back
Quiescent ==
    /\ Subscribed
    /\ ShowsTable
    /\ notices = {}
    /\ fetching = {}
    /\ lastFetch.ok
    /\ lastFetch.newest = Len(table)

\* C27: the view converges. While the presenter stays subscribed, once the
\* writes to the location table have stopped, every change event has been
\* delivered and every refresh in flight has returned, the markers shown are
\* the latest row of every actor of the table's final rows: no row stays
\* missing or stale because a slower, earlier refresh has returned last.
C27_ViewConverges ==
    Quiescent => LatestPerActor(Markers(presenter, tableName), table)


\* two writes sent by the watch callback of one owner on one page instance
SameCallback(r1, r2) == r1.kind = r2.kind /\ r1.inst = r2.inst

\* C28: the sample writes of an actor reach the store in sampling order. At
\* most one write sent by a watch callback is in flight at a time, and a write
\* the store answers is older than every write of that callback that is still
\* in flight, so that the row the store stamps last is the one of the most
\* recent sample sent.
C28_InsertsInSamplingOrder ==
    [][/\ \A r1, r2 \in inflight' : SameCallback(r1, r2) => r1 = r2
       /\ \A r \in inflight \ inflight' : \A q \in inflight' :
            SameCallback(r, q) => q.rid > r.rid]_vars


\* a step in which a timeout's fitBounds is applied to the map
TimerApplied ==
    /\ timers # <<>>
    /\ timers' = Tail(timers)
    /\ lastView' = View("timeout", "ok")

====
